---- MODULE Spec2Model ----
(***************************************************************************)
(* Model of the relevance-classification and deduplication pipeline of    *)
(* personalized-aws-features:                                              *)
(*   integrations/dynamodb.py  (identity, SeenStore lookups and writes)    *)
(*   integrations/bedrock.py   (classifier call, parallel batch)            *)
(*   core/processor.py         (the pipeline, process_features)             *)
(*                                                                         *)
(* Three specifications share the module:                                  *)
(*   SpecId    generate_announcement_id on pairs of announcements          *)
(*   SpecBatch process_announcements_in_parallel, thread by thread         *)
(*   Spec      process_features, run after run against one table          *)
(*                                                                         *)
(* Python objects are modelled as functions from field name to value; a    *)
(* list of announcement objects is a sequence of references (indices into  *)
(* the batch), because the code's lists share the dict objects.            *)
(* Strings that the code takes apart or joins are sequences of characters. *)
(***************************************************************************)
EXTENDS Integers, Sequences, FiniteSets, TLC

\* ------------------------------------------------------------------ bounds
\* longest title / link of the identity model
MaxTitleLen == 2
MaxLinkLen == 1
\* longest oracle response text, in tokens
MaxRespLen == 3
\* largest batch and largest thread pool of the engine model
MaxBatch == 2
MaxWorkers == 2
\* longest fetched batch and number of runs of the pipeline model
MaxFetch == 2
MaxRuns == 2

\* ------------------------------------------------------------- variables
VARIABLES
    \* -- SpecId
    idPair,     \* two announcement objects
    idOut,      \* their identities once computed, <<>> before
    \* -- SpecBatch: one call of process_announcements_in_parallel
    announcements,  \* the batch: reference (index) -> announcement object
    max_workers,    \* size of the thread pool
    api_calls,      \* the module-level dict _api_calls
    phase,          \* "entry", "map" (inside the with block), "returned",
                    \* "raised" (the call raised to its caller)
    pc,             \* per task: where its thread stands
    reg,            \* per task: the counter value its thread has read
    ctr,            \* per task: the counter its thread is about to bump
    callClass,      \* per task: how its call ended ("none" before the call)
    completed,      \* the tasks in the order they returned
    relevant_announcements,      \* the first list returned
    non_relevant_announcements   \* the second list returned

VARIABLES
    \* -- Spec: process_features, run after run
    store,        \* the DynamoDB table: announcement_id -> item
    run,          \* number of runs started (the clock of processed_at)
    config,       \* the configuration of the current run
    stage,        \* the statement of process_features to execute next
    error,        \* the failure that ended the run, "none" otherwise
    exception,    \* the exception object process_features raised
    exit_status,  \* <<>> while main runs, then <<0>> or <<1>>: what it returned
    ddb_table,    \* "None" or "table"
    batch,        \* the fetched announcements: reference -> object
    relevant,     \* the local list relevant
    non_relevant, \* the local list non_relevant
    filtered,     \* the local list filtered
    results,      \* the results dict
    \* what the collaborators saw, for the properties
    tableAcquired,   \* get_dynamodb_table was called in this run
    classifierCalled,\* references whose classifier call was started in this run
    lookedUp,        \* references whose get_item was issued in this run
    lookupRaised,    \* those among them whose get_item raised
    writeAttempted,  \* references whose put_item was issued in this run
    writeFailed,     \* those among them whose put_item raised
    filterCalled,    \* filter_seen_announcements was called in this run
    save_results,    \* whether save_announcement was called, and its return
    notifierInput,   \* whether the Notifier was called, and the list passed
    delivered,       \* (title, link) -> times passed to the Notifier, ever
                     \* (0, 1, or 2 for more than once)
    clean,           \* every run so far had history on, no store call raised
    seenAtStart      \* the identities the table held when the run started

VARIABLES
    \* -- SpecParse: the parsing of one oracle response
    parse_text,     \* the text the oracle returned (response_text)
    parse_result    \* what the two parsing attempts made of it

idVars == <<idPair, idOut>>
parseVars == <<parse_text, parse_result>>
pipeVars == <<store, run, config, stage, error, exception, exit_status,
              ddb_table, batch,
              relevant, non_relevant, filtered, results, tableAcquired,
              classifierCalled, lookedUp,
              lookupRaised, writeAttempted, writeFailed, filterCalled,
              save_results, notifierInput, delivered, clean, seenAtStart>>
batchVars == <<announcements, max_workers, api_calls, phase, pc, reg, ctr,
               callClass, completed, relevant_announcements,
               non_relevant_announcements>>
vars == <<idVars, batchVars, pipeVars, parseVars>>

\* ------------------------------------------------------- general helpers
\* dict.get(key, default)
Get(d, k, default) == IF k \in DOMAIN d THEN d[k] ELSE default

\* d with d[k] = v (a Python item assignment, adding the key when absent)
Put(d, k, v) == [x \in DOMAIN d \cup {k} |-> IF x = k THEN v ELSE d[x]]

\* all sequences over S of length at most n
SeqUpTo(S, n) == UNION {[1..k -> S] : k \in 0..n}

\* the subsequence of s whose elements satisfy Keep, in the order of s
RECURSIVE SelectRefs(_, _)
SelectRefs(s, keepSet) ==
    IF s = <<>> THEN <<>>
    ELSE IF Head(s) \in keepSet
         THEN <<Head(s)>> \o SelectRefs(Tail(s), keepSet)
         ELSE SelectRefs(Tail(s), keepSet)

\* ================================================================ identity
\* characters of titles and links: a letter and the delimiter of the key
Alphabet == {"a", "|"}
Titles == SeqUpTo(Alphabet, MaxTitleLen)
Links == SeqUpTo(Alphabet, MaxLinkLen)
Descriptions == {"d1", "d2"}
DatesPosted == {"p1", "p2"}

\* "|".join(key_parts) for the two key parts
JoinKeyParts(key_parts) == key_parts[1] \o <<"|">> \o key_parts[2]

\* hashlib.md5(...).hexdigest(), taken as collision-free: the digest of a
\* key string is that key string under a tag
md5(key_string) == <<"md5">> \o key_string

\* a faulty identity that also hashes the mentioned services
generate_announcement_id_services(announcement) ==
    md5(JoinKeyParts(<<Get(announcement, "title", <<>>),
                       Get(announcement, "link", <<>>)>>)
        \o (IF Get(announcement, "services", <<>>) = <<>> THEN <<>> ELSE <<"s">>))

generate_announcement_id(announcement) ==
    LET key_parts == <<Get(announcement, "title", <<>>),
                       Get(announcement, "link", <<>>)>>
        key_string == JoinKeyParts(key_parts)
    IN  md5(key_string)

\* the dict fetch_aws_whats_new builds for a feed entry
RawAnnouncement(title, link, description, datePosted) ==
    [k \in {"title", "description", "link", "datePosted"} |->
        CASE k = "title" -> title
          [] k = "description" -> description
          [] k = "link" -> link
          [] OTHER -> datePosted]

\* ============================================================== classifier
\* The oracle's answer is a text over a small token alphabet: braces, "r"
\* (the members of a relevant verdict), "n" (those of a non-relevant one),
\* "0" (a JSON scalar) and "x" (prose that is not JSON); or the call raises.
Tokens == {"{", "}", "r", "n", "0", "x"}
ResponseTexts == SeqUpTo(Tokens, MaxRespLen)
Exceptions == {"ThrottlingException", "ReadTimeoutError"}
Responses ==
    {[kind |-> "text", text |-> t, exc |-> "none"] : t \in ResponseTexts}
    \cup {[kind |-> "raise", text |-> <<>>, exc |-> e] : e \in Exceptions}

\* the object a member token stands for
MemberDict(tok) ==
    IF tok = "r"
    THEN [relevant |-> TRUE, services |-> <<"EC2">>, summary |-> "sum"]
    ELSE [relevant |-> FALSE, services |-> <<"CloudFront">>, summary |-> ""]

\* json.loads: an object "{}", "{r}" or "{n}", the scalar "0", or JSONDecodeError
json_loads(text) ==
    CASE text = <<"{", "}">> -> [ok |-> TRUE, isdict |-> TRUE, dict |-> <<>>]
      [] Len(text) = 3 /\ text[1] = "{" /\ text[2] \in {"r", "n"} /\ text[3] = "}"
            -> [ok |-> TRUE, isdict |-> TRUE, dict |-> MemberDict(text[2])]
      [] text = <<"0">> -> [ok |-> TRUE, isdict |-> FALSE, dict |-> <<>>]
      [] OTHER -> [ok |-> FALSE, isdict |-> FALSE, dict |-> <<>>]

\* re.search(r"\{.*\}", text, re.DOTALL): greedy, from the leftmost "{" to the
\* last "}" after it; [found |-> FALSE] stands for None
re_search(text) ==
    LET opens == {i \in 1..Len(text) : text[i] = "{"}
        first == CHOOSE i \in opens : \A j \in opens : i <= j
        closes == {i \in 1..Len(text) : text[i] = "}" /\ i > first}
        last == CHOOSE i \in closes : \A j \in closes : j <= i
    IN  IF opens = {} \/ closes = {}
        THEN [found |-> FALSE, group |-> <<>>]
        ELSE [found |-> TRUE, group |-> SubSeq(text, first, last)]

\* bedrock.py 93-104: the result of the two parsing attempts
ParseResponse(response_text) ==
    LET direct == json_loads(response_text)
        json_match == re_search(response_text)
    IN  IF direct.ok THEN direct
        ELSE IF json_match.found THEN json_loads(json_match.group)
        ELSE [ok |-> FALSE, isdict |-> FALSE, dict |-> <<>>]

\* the fallback both except branches write into the announcement
Degraded(announcement) ==
    Put(Put(announcement, "services", <<>>), "relevant", FALSE)

\* bedrock.py 106-115: the fields written from a parsed object
ApplyResult(announcement, result) ==
    LET a1 == Put(announcement, "services", Get(result, "services", <<>>))
        a2 == Put(a1, "relevant", Get(result, "relevant", FALSE))
    IN  IF Get(result, "relevant", FALSE)
        THEN Put(a2, "summary", Get(result, "summary", ""))
        ELSE a2

\* process_announcement_with_bedrock after the call to converse: the
\* announcement it returns and the counter it increments besides "total".
\*   converse raised                  -> outer except (126-136)
\*   no JSON in the text              -> inner except (117-124)
\*   JSON that is no object           -> result.get raises AttributeError,
\*                                       caught by the outer except
CallOutcome(announcement, response) ==
    LET parsed == ParseResponse(response.text)
    IN  IF response.kind = "raise"
        THEN [ann |-> Degraded(announcement),
              counter |-> IF response.exc = "ThrottlingException"
                          THEN "throttled" ELSE "errors"]
        ELSE IF ~parsed.ok
        THEN [ann |-> Degraded(announcement), counter |-> "errors"]
        ELSE IF ~parsed.isdict
        THEN [ann |-> Degraded(announcement), counter |-> "errors"]
        ELSE [ann |-> ApplyResult(announcement, parsed.dict), counter |-> "none"]

\* a response that is not parseable structured data: neither the whole text
\* nor the object substring extracted from it parses
NotParseable(response) ==
    /\ response.kind = "text"
    /\ ~json_loads(response.text).ok
    /\ \/ ~re_search(response.text).found
       \/ ~json_loads(re_search(response.text).group).ok

\* how a call ended, as the engine's statistics name it
CallClass(response) ==
    CASE response.kind = "raise" /\ response.exc = "ThrottlingException" -> "throttled"
      [] response.kind = "raise" -> "failed"
      [] NotParseable(response) -> "notparseable"
      [] ~ParseResponse(response.text).ok -> "failed"
      [] ~ParseResponse(response.text).isdict -> "failed"
      [] OTHER -> "answered"

\* ===================================================== SpecParse: parsing
\* One response text, taken through lines 93-115 of
\* process_announcement_with_bedrock on a fresh announcement.
NotParsed == [done |-> FALSE, malformed |-> FALSE, verdict |-> <<>>]

ParseInit ==
    /\ parse_text \in ResponseTexts
    /\ parse_result = NotParsed

\* the text is parsed; an object gives its verdict (the fields written into
\* the announcement), anything else is malformed
ParseText ==
    /\ ~parse_result.done
    /\ LET response == [kind |-> "text", text |-> parse_text, exc |-> "none"]
           out == CallOutcome(<<>>, response)
       IN  parse_result' = [done |-> TRUE,
                      malformed |-> out.counter # "none",
                      verdict |-> IF out.counter # "none" THEN <<>> ELSE out.ann]
    /\ UNCHANGED <<parse_text, idVars, batchVars, pipeVars>>

\* the next response arrives
NextText(text) ==
    /\ parse_result.done
    /\ parse_text' = text
    /\ parse_result' = NotParsed
    /\ UNCHANGED <<idVars, batchVars, pipeVars>>

ParseNext ==
    \/ ParseText
    \/ \E text \in ResponseTexts : NextText(text)

\* ======================================================= SpecBatch: engine
\* The thread of task i runs process_announcement_with_bedrock on
\* announcements[i].  Its steps are the accesses to shared state; what a
\* thread does to its own announcement in between is folded into them:
\*   "queued"    submitted, waiting for a free worker
\*   "inc_total" has read _api_calls["total"], the store of +1 is pending
\*   "call"      waiting for converse to answer
\*   "inc_ctr"   has read the counter ctr[i], the store of +1 is pending
\*   "done"      returned its announcement
\* _api_calls[k] += 1 is a load, an add and a store with no lock around them
\* (bedrock.py 36, 118, 128, 131), so a thread switch can fall between.
Refs == DOMAIN announcements
InFlight == {i \in Refs : pc[i] \notin {"queued", "done"}}

BatchTitles == {<<"a">>, <<"|">>}

\* a faulty pool that accepts any size: with none to run them, the submitted
\* tasks wait for ever
ThreadPoolExecutor_unchecked(n) == "pool"

\* ThreadPoolExecutor(max_workers=n), bedrock.py 167: the constructor raises
\* ValueError("max_workers must be greater than 0") for n <= 0
ThreadPoolExecutor(n) == IF n <= 0 THEN "ValueError" ELSE "pool"

\* the distinct effects an oracle response can have on a call
OracleEffects ==
    {[out |-> CallOutcome(<<>>, r).counter,
      cls |-> CallClass(r),
      parse |-> IF r.kind = "text" THEN ParseResponse(r.text)
                ELSE [ok |-> FALSE, isdict |-> FALSE, dict |-> <<>>],
      raised |-> r.kind = "raise",
      exc |-> r.exc] : r \in Responses}

\* one representative response per effect
EffectResponses ==
    {CHOOSE r \in Responses :
        /\ CallOutcome(<<>>, r).counter = e.out
        /\ CallClass(r) = e.cls
        /\ r.exc = e.exc
        /\ (r.kind = "text" => ParseResponse(r.text) = e.parse) : e \in OracleEffects}

BatchInit ==
    /\ \E n \in 0..MaxBatch : \E titles \in [1..n -> BatchTitles] :
          announcements = [i \in 1..n |->
                              RawAnnouncement(titles[i], <<"a">>, "d1", "p1")]
    /\ max_workers \in (-1)..MaxWorkers
    /\ api_calls \in {[total |-> t, throttled |-> 0, errors |-> t] : t \in 0..1}
    /\ phase = "entry"
    /\ pc = [i \in DOMAIN announcements |-> "queued"]
    /\ reg = [i \in DOMAIN announcements |-> 0]
    /\ ctr = [i \in DOMAIN announcements |-> "none"]
    /\ callClass = [i \in DOMAIN announcements |-> "none"]
    /\ completed = <<>>
    /\ relevant_announcements = <<>>
    /\ non_relevant_announcements = <<>>

\* bedrock.py 158-167: reset the counters, open the pool, submit every task;
\* nothing catches the ValueError of the constructor
EnterBatch ==
    /\ phase = "entry"
    /\ api_calls' = [total |-> 0, throttled |-> 0, errors |-> 0]
    /\ phase' = IF ThreadPoolExecutor(max_workers) = "ValueError"
                THEN "raised" ELSE "map"
    /\ UNCHANGED <<announcements, max_workers, pc, reg, ctr, callClass,
                   completed, relevant_announcements,
                   non_relevant_announcements>>
    /\ UNCHANGED <<idVars, pipeVars, parseVars>>

\* a free worker takes the oldest queued task and loads _api_calls["total"]
StartTask(i) ==
    /\ phase = "map"
    /\ pc[i] = "queued"
    /\ \A j \in Refs : j < i => pc[j] # "queued"
    /\ Cardinality(InFlight) < max_workers
    /\ pc' = [pc EXCEPT ![i] = "inc_total"]
    /\ reg' = [reg EXCEPT ![i] = api_calls.total]
    /\ UNCHANGED <<announcements, max_workers, api_calls, phase, ctr,
                   callClass, completed, relevant_announcements,
                   non_relevant_announcements>>
    /\ UNCHANGED <<idVars, pipeVars, parseVars>>

\* the store of _api_calls["total"] += 1, then the request goes out
StoreTotal(i) ==
    /\ pc[i] = "inc_total"
    /\ api_calls' = [api_calls EXCEPT !.total = reg[i] + 1]
    /\ pc' = [pc EXCEPT ![i] = "call"]
    /\ UNCHANGED <<announcements, max_workers, phase, reg, ctr, callClass,
                   completed, relevant_announcements,
                   non_relevant_announcements>>
    /\ UNCHANGED <<idVars, pipeVars, parseVars>>

\* converse answers (or raises).  An object: the fields are written and the
\* task returns.  Anything else: the thread loads the counter it will bump.
Answer(i, response) ==
    /\ pc[i] = "call"
    /\ LET out == CallOutcome(announcements[i], response)
       IN  /\ callClass' = [callClass EXCEPT ![i] = CallClass(response)]
           /\ IF out.counter = "none"
              THEN /\ announcements' = [announcements EXCEPT ![i] = out.ann]
                   /\ pc' = [pc EXCEPT ![i] = "done"]
                   /\ completed' = Append(completed, i)
                   /\ UNCHANGED <<reg, ctr>>
              ELSE /\ pc' = [pc EXCEPT ![i] = "inc_ctr"]
                   /\ ctr' = [ctr EXCEPT ![i] = out.counter]
                   /\ reg' = [reg EXCEPT ![i] = api_calls[out.counter]]
                   /\ UNCHANGED <<announcements, completed>>
    /\ UNCHANGED <<max_workers, api_calls, phase, relevant_announcements,
                   non_relevant_announcements>>
    /\ UNCHANGED <<idVars, pipeVars, parseVars>>

\* the store of the failure counter, the fallback fields, and the return
StoreCounter(i) ==
    /\ pc[i] = "inc_ctr"
    /\ api_calls' = [api_calls EXCEPT ![ctr[i]] = reg[i] + 1]
    /\ announcements' = [announcements EXCEPT ![i] = Degraded(announcements[i])]
    /\ pc' = [pc EXCEPT ![i] = "done"]
    /\ completed' = Append(completed, i)
    /\ UNCHANGED <<max_workers, phase, reg, ctr, callClass,
                   relevant_announcements, non_relevant_announcements>>
    /\ UNCHANGED <<idVars, pipeVars, parseVars>>

\* the references 1..n in input order
RECURSIVE InputOrder(_)
InputOrder(n) == IF n = 0 THEN <<>> ELSE Append(InputOrder(n - 1), n)

\* a faulty collection that takes the results as they complete
processed_announcements_as_completed == completed

\* list(executor.map(...)): the results in the order of the inputs
processed_announcements == InputOrder(Cardinality(Refs))

\* bedrock.py 177-185: the two lists, in the order of processed
Partition(processed, anns) ==
    [relevant |-> SelectRefs(processed,
                     {i \in DOMAIN anns : Get(anns[i], "relevant", FALSE)}),
     non_relevant |-> SelectRefs(processed,
                     {i \in DOMAIN anns : ~Get(anns[i], "relevant", FALSE)})]

\* the with block ends when every task has returned; then partition, return
ReturnBatch ==
    /\ phase = "map"
    /\ \A i \in Refs : pc[i] = "done"
    /\ LET parts == Partition(processed_announcements, announcements)
       IN  /\ relevant_announcements' = parts.relevant
           /\ non_relevant_announcements' = parts.non_relevant
    /\ phase' = "returned"
    /\ UNCHANGED <<announcements, max_workers, api_calls, pc, reg, ctr,
                   callClass, completed>>
    /\ UNCHANGED <<idVars, pipeVars, parseVars>>

BatchNext ==
    \/ EnterBatch
    \/ \E i \in Refs : StartTask(i)
    \/ \E i \in Refs : StoreTotal(i)
    \/ \E i \in Refs : \E response \in EffectResponses : Answer(i, response)
    \/ \E i \in Refs : StoreCounter(i)
    \/ ReturnBatch

\* ========================================================== SpecId: identity
\* Two announcement objects as a fetch builds them.  The first is compared
\* with the second, whose feed entry may be edited between runs and which is
\* classified run after run; the identity of either is computed at any
\* moment, as is_announcement_seen and save_announcement do.
IdInit ==
    /\ \E t1 \in Titles, l1 \in Links, t2 \in Titles, l2 \in Links :
          idPair = <<RawAnnouncement(t1, l1, "d1", "p1"),
                     RawAnnouncement(t2, l2, "d1", "p1")>>
    /\ idOut = <<"none", "none">>

\* the feed entry of the second announcement is edited and re-dated
Reedit(description, datePosted) ==
    /\ idPair' = [idPair EXCEPT ![2] =
                     Put(Put(@, "description", description),
                         "datePosted", datePosted)]
    /\ UNCHANGED <<idOut, batchVars, pipeVars, parseVars>>

\* process_announcement_with_bedrock on the second
ClassifyOne(response) ==
    /\ idPair' = [idPair EXCEPT ![2] = CallOutcome(@, response).ann]
    /\ UNCHANGED <<idOut, batchVars, pipeVars, parseVars>>

\* generate_announcement_id on one of the two
ComputeId(i) ==
    /\ idOut' = [idOut EXCEPT ![i] = generate_announcement_id(idPair[i])]
    /\ UNCHANGED <<idPair, batchVars, pipeVars, parseVars>>

IdNext ==
    \/ \E d \in Descriptions, p \in DatesPosted : Reedit(d, p)
    \/ \E response \in EffectResponses : ClassifyOne(response)
    \/ \E i \in 1..2 : ComputeId(i)

\* ======================================================= Spec: the pipeline
\* ---- integrations/dynamodb.py
\* table.put_item(Item=item): the item replaces any item of the same key
put_item(table, item) == Put(table, item.announcement_id, item)

\* a faulty item whose key is not the identity the lookup asks for
Item_services_key(announcement, now) ==
    [announcement_id |-> generate_announcement_id_services(announcement),
     title |-> Get(announcement, "title", <<>>),
     link |-> Get(announcement, "link", <<>>),
     datePosted |-> Get(announcement, "datePosted", ""),
     services |-> Get(announcement, "services", <<>>),
     processed_at |-> now]

\* the item save_announcement prepares; now stands for datetime.now()
Item(announcement, now) ==
    [announcement_id |-> generate_announcement_id(announcement),
     title |-> Get(announcement, "title", <<>>),
     link |-> Get(announcement, "link", <<>>),
     datePosted |-> Get(announcement, "datePosted", ""),
     services |-> Get(announcement, "services", <<>>),
     processed_at |-> now]

\* the loop of save_announcement over the references refs; failing are the
\* references whose put_item raises
RECURSIVE SaveLoop(_, _, _, _, _, _)
SaveLoop(refs, heap, table, failing, now, acc) ==
    IF refs = <<>> THEN [table |-> table, results |-> acc.results,
                         attempted |-> acc.attempted, raised |-> FALSE]
    ELSE LET i == Head(refs)
             tried == [acc EXCEPT !.attempted = Append(@, i)]
         IN  IF i \in failing
             THEN SaveLoop(Tail(refs), heap, table, failing, now,
                           [tried EXCEPT !.results.failure = @ + 1])
             ELSE SaveLoop(Tail(refs), heap,
                           put_item(table, Item(heap[i], now)), failing, now,
                           [tried EXCEPT !.results.success = @ + 1])

\* a faulty loop without the try: the first failing write ends it
RECURSIVE SaveLoopAbort(_, _, _, _, _, _)
SaveLoopAbort(refs, heap, table, failing, now, acc) ==
    IF refs = <<>> THEN [table |-> table, results |-> acc.results,
                         attempted |-> acc.attempted, raised |-> FALSE]
    ELSE LET i == Head(refs)
             tried == [acc EXCEPT !.attempted = Append(@, i)]
         IN  IF i \in failing
             THEN [table |-> table, results |-> tried.results,
                   attempted |-> tried.attempted, raised |-> TRUE]
             ELSE SaveLoopAbort(Tail(refs), heap,
                           put_item(table, Item(heap[i], now)), failing, now,
                           [tried EXCEPT !.results.success = @ + 1])

save_announcement_abort(refs, heap, table, failing, now) ==
    SaveLoopAbort(refs, heap, table, failing, now,
             [results |-> [success |-> 0, failure |-> 0], attempted |-> <<>>])

save_announcement(refs, heap, table, failing, now) ==
    SaveLoop(refs, heap, table, failing, now,
             [results |-> [success |-> 0, failure |-> 0], attempted |-> <<>>])

\* a faulty lookup that reports "seen" when get_item raises
is_announcement_seen_failclosed(announcement, table, raises) ==
    IF raises THEN TRUE
    ELSE generate_announcement_id(announcement) \in DOMAIN table

\* a faulty lookup that never finds the item
is_announcement_seen_never(announcement, table, raises) == FALSE

\* raises: get_item raises, and the except clause returns False
is_announcement_seen(announcement, table, raises) ==
    IF raises THEN FALSE
    ELSE generate_announcement_id(announcement) \in DOMAIN table

\* ---- core/processor.py
\* a faulty filter that builds the list of new announcements back to front
RECURSIVE ReverseSeq(_)
ReverseSeq(s) == IF s = <<>> THEN <<>> ELSE Append(ReverseSeq(Tail(s)), Head(s))

filter_seen_announcements_prepend(refs, heap, table, tbl, use_history, raising) ==
    IF ~use_history \/ tbl = "None"
    THEN [new |-> refs, filtered |-> <<>>, lookups |-> {}]
    ELSE LET seen == {i \in DOMAIN heap :
                         is_announcement_seen(heap[i], table, i \in raising)}
         IN  [new |-> ReverseSeq(SelectRefs(refs, DOMAIN heap \ seen)),
              filtered |-> SelectRefs(refs, seen),
              lookups |-> {refs[k] : k \in DOMAIN refs}]

\* a faulty filter that hands every announcement on as new
filter_seen_announcements_passall(refs, heap, table, tbl, use_history, raising) ==
    IF ~use_history \/ tbl = "None"
    THEN [new |-> refs, filtered |-> <<>>, lookups |-> {}]
    ELSE LET seen == {i \in DOMAIN heap :
                         is_announcement_seen(heap[i], table, i \in raising)}
         IN  [new |-> refs,
              filtered |-> SelectRefs(refs, seen),
              lookups |-> {refs[k] : k \in DOMAIN refs}]

\* raising are the references whose lookup raises; tbl is ddb_table
filter_seen_announcements(refs, heap, table, tbl, use_history, raising) ==
    IF ~use_history \/ tbl = "None"
    THEN [new |-> refs, filtered |-> <<>>, lookups |-> {}]
    ELSE LET seen == {i \in DOMAIN heap :
                         is_announcement_seen(heap[i], table, i \in raising)}
         IN  [new |-> SelectRefs(refs, DOMAIN heap \ seen),
              filtered |-> SelectRefs(refs, seen),
              lookups |-> {refs[k] : k \in DOMAIN refs}]

\* a faulty update that counts the relevant announcements only
update_results_relevant_only(res, rel, non_rel) ==
    [res EXCEPT !.announcement_count = Len(rel),
                !.relevant_count = Len(rel)]

\* 146-147: the counts of the classification
update_results(res, rel, non_rel) ==
    [res EXCEPT !.announcement_count = Len(rel) + Len(non_rel),
                !.relevant_count = Len(rel)]

initialize_results ==
    [service_count |-> 0, announcement_count |-> 0, relevant_count |-> 0,
     filtered_history_count |-> 0]

\* a faulty setup that acquires the table whatever no_history says
setup_dynamodb_always(no_history) == [table |-> "table", acquired |-> TRUE]

\* the table handle and whether get_dynamodb_table was called
setup_dynamodb(no_history) ==
    IF no_history THEN [table |-> "None", acquired |-> FALSE]
    ELSE [table |-> "table", acquired |-> TRUE]

\* send_announcements_to_slack: failing are the references whose post fails
send_announcements_to_slack(refs, failing) ==
    [success |-> Cardinality({k \in DOMAIN refs : refs[k] \notin failing}),
     failure |-> Cardinality({k \in DOMAIN refs : refs[k] \in failing})]

\* an exception object: its type and what it carries besides
NoException == [type |-> "none", args |-> <<>>]

\* a faulty notification step that raises before the counts are written
send_slack_notifications_raise_first(refs, creds, res, failing) ==
    IF ~creds THEN [called |-> FALSE, results |-> res, raised |-> FALSE]
    ELSE LET slack_results == send_announcements_to_slack(refs, failing)
         IN  [called |-> TRUE,
              results |-> IF slack_results.failure > 0 THEN res
                          ELSE Put(Put(res, "slack_success", slack_results.success),
                                   "slack_failure", slack_results.failure),
              raised |-> slack_results.failure > 0]

\* send_slack_notifications (97-116): without token or channel a warning and
\* nothing else; otherwise the Notifier is called, its counts are written
\* into results, and RuntimeError is raised when a post failed
send_slack_notifications(refs, creds, res, failing) ==
    IF ~creds THEN [called |-> FALSE, results |-> res, raised |-> FALSE]
    ELSE LET slack_results == send_announcements_to_slack(refs, failing)
         IN  [called |-> TRUE,
              results |-> Put(Put(res, "slack_success", slack_results.success),
                              "slack_failure", slack_results.failure),
              raised |-> slack_results.failure > 0]

\* the exceptions of a run: RuntimeError(f"Failed to send {failure}
\* announcement(s) to Slack") holds the failure count in its message and
\* nothing else; the others hold their cause only
SlackError(failure) ==
    [type |-> "RuntimeError", args |-> [slack_failure |-> failure]]
CauseError(type) == [type |-> type, args |-> <<>>]

\* a faulty handler that logs the error and lets the run return
except_handler_swallow(cause, e) ==
    [stage |-> "returned", error |-> cause, exception |-> NoException]

\* 193-195: the handler of process_features logs the error and raises it again
except_handler(cause, e) ==
    [stage |-> "raised", error |-> cause, exception |-> e]

\* a faulty fetch-and-classify that hands an empty batch to the engine
fetch_and_process_announcements_always(raw_announcements, responses, workers) ==
    IF ThreadPoolExecutor(workers) = "ValueError"
    THEN [raised |-> TRUE, engine |-> TRUE, called |-> {},
          heap |-> raw_announcements, relevant |-> <<>>, non_relevant |-> <<>>]
    ELSE LET heap == [i \in DOMAIN raw_announcements |->
                         CallOutcome(raw_announcements[i], responses[i]).ann]
             parts == Partition(InputOrder(Len(raw_announcements)), heap)
         IN  [raised |-> FALSE, engine |-> TRUE, called |-> DOMAIN raw_announcements,
              heap |-> heap, relevant |-> parts.relevant,
              non_relevant |-> parts.non_relevant]

\* fetch_and_process_announcements after the fetch (63-71): nothing fetched
\* gives two empty lists without entering the engine; otherwise
\* process_announcements_in_parallel classifies every announcement
\* (responses: reference -> oracle response) and partitions the batch, or
\* raises the ValueError of the pool
fetch_and_process_announcements(raw_announcements, responses, workers) ==
    IF raw_announcements = <<>>
    THEN [raised |-> FALSE, engine |-> FALSE, called |-> {},
          heap |-> raw_announcements, relevant |-> <<>>, non_relevant |-> <<>>]
    ELSE IF ThreadPoolExecutor(workers) = "ValueError"
    THEN [raised |-> TRUE, engine |-> TRUE, called |-> {},
          heap |-> raw_announcements, relevant |-> <<>>, non_relevant |-> <<>>]
    ELSE LET heap == [i \in DOMAIN raw_announcements |->
                         CallOutcome(raw_announcements[i], responses[i]).ann]
             parts == Partition(InputOrder(Len(raw_announcements)), heap)
         IN  [raised |-> FALSE, engine |-> TRUE, called |-> DOMAIN raw_announcements,
              heap |-> heap, relevant |-> parts.relevant,
              non_relevant |-> parts.non_relevant]

\* ---- the feed
FeedEntries == {<<<<"a">>, <<"a">>>>, <<<<"a", "|">>, <<>>>>}
Key(announcement) == <<announcement.title, announcement.link>>

\* the services get_services returns when Cost Explorer reports no group
DefaultServiceCount == 12

\* config["workers"]: the CLI and the Lambda handler take any integer (cli.py
\* 26-31, lambda_function.py 19); 0 stands for the non-positive ones
WorkerCounts == {0, 1}

\* slack_creds: both slack_token and slack_channel are non-empty
Configs == [no_history : BOOLEAN, slack_enabled : BOOLEAN, slack_creds : BOOLEAN,
            workers : WorkerCounts]

NotSaved == [called |-> FALSE, success |-> 0, failure |-> 0]
NotNotified == [called |-> FALSE, refs |-> <<>>]

PipeInit ==
    /\ store = <<>>
    /\ run = 0
    /\ config = [no_history |-> FALSE, slack_enabled |-> FALSE,
                 slack_creds |-> FALSE, workers |-> 1]
    /\ stage = "idle"
    /\ error = "none"
    /\ exception = NoException
    /\ exit_status = <<>>
    /\ ddb_table = "None"
    /\ batch = <<>>
    /\ relevant = <<>> /\ non_relevant = <<>> /\ filtered = <<>>
    /\ results = initialize_results
    /\ tableAcquired = FALSE
    /\ classifierCalled = {}
    /\ lookedUp = {} /\ lookupRaised = {}
    /\ writeAttempted = <<>> /\ writeFailed = {}
    /\ filterCalled = FALSE
    /\ save_results = NotSaved
    /\ notifierInput = NotNotified
    /\ delivered = [k \in FeedEntries |-> 0]
    /\ clean = TRUE
    /\ seenAtStart = {}

use_history == ~config.no_history
Frame == UNCHANGED <<idVars, batchVars, parseVars>>

\* main is started and enters process_features with a configuration
\* (cli.py 89-99, processor.py 119-124)
StartRun(c) ==
    /\ stage = "idle" \/ exit_status # <<>>
    /\ run < MaxRuns
    /\ run' = run + 1
    /\ config' = c
    /\ stage' = "setup"
    /\ error' = "none"
    /\ exception' = NoException
    /\ exit_status' = <<>>
    /\ ddb_table' = "None"
    /\ batch' = <<>>
    /\ relevant' = <<>> /\ non_relevant' = <<>> /\ filtered' = <<>>
    /\ results' = initialize_results
    /\ tableAcquired' = FALSE
    /\ classifierCalled' = {}
    /\ lookedUp' = {} /\ lookupRaised' = {}
    /\ writeAttempted' = <<>> /\ writeFailed' = {}
    /\ filterCalled' = FALSE
    /\ save_results' = NotSaved
    /\ notifierInput' = NotNotified
    /\ clean' = (clean /\ ~c.no_history)
    /\ seenAtStart' = DOMAIN store
    /\ UNCHANGED <<store, delivered>>
    /\ Frame

\* 127: setup_dynamodb; get_dynamodb_table raises when the table cannot be
\* accessed, and the call stands before the try
SetupDynamodb(reachable) ==
    /\ stage = "setup"
    /\ LET s == setup_dynamodb(config.no_history)
       IN  /\ tableAcquired' = s.acquired
           /\ IF s.acquired /\ ~reachable
              THEN /\ stage' = "raised" /\ error' = "table"
                   /\ exception' = CauseError("Exception")
                   /\ UNCHANGED ddb_table
              ELSE /\ stage' = "services" /\ ddb_table' = s.table
                   /\ UNCHANGED <<error, exception>>
    /\ UNCHANGED <<store, run, config, batch, relevant, non_relevant, filtered,
                   results, classifierCalled, lookedUp, lookupRaised,
                   writeAttempted, writeFailed, filterCalled, save_results,
                   notifierInput, delivered, clean>>
    /\ UNCHANGED <<exit_status, seenAtStart>>
    /\ Frame

\* 133-134: get_and_analyze_services; get_services raises RuntimeError
GetServices(ok) ==
    /\ stage = "services"
    /\ IF ok
       THEN /\ results' = [results EXCEPT !.service_count = DefaultServiceCount]
            /\ stage' = "fetch"
            /\ UNCHANGED <<error, exception>>
       ELSE LET h == except_handler("services", CauseError("RuntimeError"))
            IN  /\ stage' = h.stage /\ error' = h.error
                /\ exception' = h.exception
                /\ UNCHANGED results
    /\ UNCHANGED <<store, run, config, ddb_table, batch, relevant, non_relevant,
                   filtered, tableAcquired, classifierCalled, lookedUp,
                   lookupRaised, writeAttempted, writeFailed, filterCalled,
                   save_results, notifierInput, delivered, clean>>
    /\ UNCHANGED <<exit_status, seenAtStart>>
    /\ Frame

\* 61: fetch_aws_whats_new returns the entries of the window
Fetch(entries) ==
    /\ stage = "fetch"
    /\ batch' = [i \in DOMAIN entries |->
                    RawAnnouncement(entries[i][1], entries[i][2], "d1", "p1")]
    /\ stage' = "classify"
    /\ UNCHANGED <<store, run, config, error, exception, ddb_table, relevant,
                   non_relevant, filtered, results, tableAcquired,
                   classifierCalled, lookedUp, lookupRaised, writeAttempted,
                   writeFailed, filterCalled, save_results, notifierInput,
                   delivered, clean>>
    /\ UNCHANGED <<exit_status, seenAtStart>>
    /\ Frame

\* 61: the fetch raises
FetchFails ==
    /\ stage = "fetch"
    /\ LET h == except_handler("fetch", CauseError("Exception"))
       IN  /\ stage' = h.stage /\ error' = h.error /\ exception' = h.exception
    /\ UNCHANGED <<store, run, config, ddb_table, batch, relevant, non_relevant,
                   filtered, results, tableAcquired, classifierCalled, lookedUp,
                   lookupRaised, writeAttempted, writeFailed, filterCalled,
                   save_results, notifierInput, delivered, clean>>
    /\ UNCHANGED <<exit_status, seenAtStart>>
    /\ Frame

\* 63-71 and 141-147: the rest of fetch_and_process_announcements, then the
\* counts go into results
Classify(responses) ==
    /\ stage = "classify"
    /\ DOMAIN responses = DOMAIN batch
    /\ LET c == fetch_and_process_announcements(batch, responses, config.workers)
       IN  /\ classifierCalled' = c.called
           /\ IF c.raised
              THEN LET h == except_handler("workers", CauseError("ValueError"))
                   IN  /\ stage' = h.stage /\ error' = h.error
                       /\ exception' = h.exception
                       /\ UNCHANGED <<batch, relevant, non_relevant, results>>
              ELSE /\ batch' = c.heap
                   /\ relevant' = c.relevant
                   /\ non_relevant' = c.non_relevant
                   /\ results' = update_results(results, c.relevant,
                                                c.non_relevant)
                   /\ stage' = "filter"
                   /\ UNCHANGED <<error, exception>>
    /\ UNCHANGED <<store, run, config, ddb_table, filtered, tableAcquired,
                   lookedUp, lookupRaised, writeAttempted, writeFailed,
                   filterCalled, save_results, notifierInput, delivered, clean>>
    /\ UNCHANGED <<exit_status, seenAtStart>>
    /\ Frame

\* 156-161: the dedup filter; raising are the lookups that raise
Filter(raising) ==
    /\ stage = "filter"
    /\ raising \subseteq {relevant[k] : k \in DOMAIN relevant}
    /\ IF use_history /\ ddb_table # "None"
       THEN LET f == filter_seen_announcements(relevant, batch, store,
                                               ddb_table, use_history, raising)
            IN  /\ relevant' = f.new
                /\ filtered' = f.filtered
                /\ results' = [results EXCEPT
                                  !.filtered_history_count = Len(f.filtered)]
                /\ lookedUp' = f.lookups
                /\ lookupRaised' = raising
                /\ filterCalled' = TRUE
                /\ clean' = (clean /\ raising = {})
       ELSE /\ raising = {}
            /\ UNCHANGED <<relevant, filtered, results, lookedUp, lookupRaised,
                           filterCalled, clean>>
    /\ stage' = "save"
    /\ UNCHANGED <<store, run, config, error, exception, ddb_table, batch,
                   non_relevant, tableAcquired, classifierCalled,
                   writeAttempted, writeFailed, save_results, notifierInput,
                   delivered>>
    /\ UNCHANGED <<exit_status, seenAtStart>>
    /\ Frame

\* 176-179: record the new relevant announcements; failing are the writes
\* that raise
Save(failing) ==
    /\ stage = "save"
    /\ failing \subseteq {relevant[k] : k \in DOMAIN relevant}
    /\ IF relevant # <<>> /\ use_history /\ ddb_table # "None"
       THEN LET s == save_announcement(relevant, batch, store, failing, run)
            IN  /\ store' = s.table
                /\ save_results' = [called |-> TRUE, success |-> s.results.success,
                                     failure |-> s.results.failure]
                /\ writeAttempted' = s.attempted
                /\ writeFailed' = failing
                /\ clean' = (clean /\ failing = {})
                /\ IF s.raised
                   THEN LET h == except_handler("save", CauseError("Exception"))
                        IN  /\ stage' = h.stage /\ error' = h.error
                            /\ exception' = h.exception
                   ELSE stage' = "notify" /\ UNCHANGED <<error, exception>>
       ELSE /\ failing = {}
            /\ stage' = "notify"
            /\ UNCHANGED <<store, save_results, writeAttempted, writeFailed,
                           clean, error, exception>>
    /\ UNCHANGED <<run, config, ddb_table, batch, relevant, non_relevant,
                   filtered, results, tableAcquired, classifierCalled, lookedUp,
                   lookupRaised, filterCalled, notifierInput, delivered>>
    /\ UNCHANGED <<exit_status, seenAtStart>>
    /\ Frame

\* delivered after the references refs were passed to the Notifier; the
\* count stops at 2, which stands for "more than once"
RECURSIVE CountDelivered(_, _, _)
CountDelivered(d, refs, heap) ==
    IF refs = <<>> THEN d
    ELSE CountDelivered([d EXCEPT ![Key(heap[Head(refs)])] =
                            IF @ < 2 THEN @ + 1 ELSE @],
                        Tail(refs), heap)

\* 181-191: the notification step and the return; failing are the
\* announcements whose post fails
Notify(failing) ==
    /\ stage = "notify"
    /\ failing \subseteq {relevant[k] : k \in DOMAIN relevant}
    /\ IF config.slack_enabled /\ relevant # <<>>
       THEN LET n == send_slack_notifications(relevant, config.slack_creds,
                                              results, failing)
            IN  /\ n.called \/ failing = {}
                /\ notifierInput' = IF n.called
                                    THEN [called |-> TRUE, refs |-> relevant]
                                    ELSE notifierInput
                /\ delivered' = IF n.called
                                THEN CountDelivered(delivered, relevant, batch)
                                ELSE delivered
                /\ results' = n.results
                /\ IF n.raised
                   THEN LET h == except_handler("slack",
                                    SlackError(Cardinality(failing)))
                        IN  /\ stage' = h.stage /\ error' = h.error
                            /\ exception' = h.exception
                   ELSE stage' = "returned" /\ UNCHANGED <<error, exception>>
       ELSE /\ failing = {}
            /\ stage' = "returned"
            /\ UNCHANGED <<notifierInput, delivered, results, error, exception>>
    /\ UNCHANGED <<store, run, config, ddb_table, batch, relevant, non_relevant,
                   filtered, tableAcquired, classifierCalled, lookedUp,
                   lookupRaised, writeAttempted, writeFailed, filterCalled,
                   save_results, clean>>
    /\ UNCHANGED <<exit_status, seenAtStart>>
    /\ Frame

\* a faulty entry point that reports success whatever happened
main_always_zero(outcome) == 0

\* cli.py 97-103: 0 when process_features returned, 1 when it raised
main(outcome) == IF outcome = "returned" THEN 0 ELSE 1

\* main returns to the shell
MainReturn ==
    /\ stage \in {"returned", "raised"}
    /\ exit_status = <<>>
    /\ exit_status' = <<main(stage)>>
    /\ UNCHANGED <<store, run, config, stage, error, exception, ddb_table,
                   batch, relevant, non_relevant, filtered, results,
                   tableAcquired, classifierCalled, lookedUp, lookupRaised,
                   writeAttempted, writeFailed, filterCalled, save_results,
                   notifierInput, delivered, clean, seenAtStart>>
    /\ Frame

Next ==
    \/ \E c \in Configs : StartRun(c)
    \/ \E reachable \in BOOLEAN : SetupDynamodb(reachable)
    \/ \E ok \in BOOLEAN : GetServices(ok)
    \/ \E entries \in SeqUpTo(FeedEntries, MaxFetch) : Fetch(entries)
    \/ FetchFails
    \/ \E responses \in [DOMAIN batch -> EffectResponses] : Classify(responses)
    \/ \E raising \in SUBSET DOMAIN batch : Filter(raising)
    \/ \E failing \in SUBSET DOMAIN batch : Save(failing)
    \/ \E failing \in SUBSET DOMAIN batch : Notify(failing)
    \/ MainReturn

\* ------------------------------------------------------- specifications
IdIdle == idPair = <<>> /\ idOut = <<>>
ParseIdle == parse_text = <<>> /\ parse_result = NotParsed
BatchIdle ==
    /\ announcements = <<>> /\ max_workers = 0
    /\ api_calls = [total |-> 0, throttled |-> 0, errors |-> 0]
    /\ phase = "idle" /\ pc = <<>> /\ reg = <<>> /\ ctr = <<>>
    /\ callClass = <<>> /\ completed = <<>>
    /\ relevant_announcements = <<>> /\ non_relevant_announcements = <<>>

Init == PipeInit /\ IdIdle /\ BatchIdle /\ ParseIdle
InitBatch == BatchInit /\ IdIdle /\ PipeInit /\ ParseIdle
InitId == IdInit /\ BatchIdle /\ PipeInit /\ ParseIdle
InitParse == ParseInit /\ IdIdle /\ BatchIdle /\ PipeInit

Spec == Init /\ [][Next]_vars
SpecBatch == InitBatch /\ [][BatchNext]_vars
SpecId == InitId /\ [][IdNext]_vars
SpecParse == InitParse /\ [][ParseNext]_vars

\* The engine with the progress its threads make by themselves: a free worker
\* takes a queued task, a thread that holds the interpreter executes its next
\* statement, the with block is left once every task has returned.  When
\* converse returns is up to the oracle: the call (81-85) and executor.map
\* (167-175) are given no timeout, so no fairness is stated for Answer.
SpecBatchFair ==
    /\ InitBatch
    /\ [][BatchNext]_vars
    /\ WF_vars(EnterBatch)
    /\ WF_vars(ReturnBatch)
    /\ \A i \in 1..MaxBatch :
          /\ WF_vars(i \in Refs /\ StartTask(i))
          /\ WF_vars(i \in Refs /\ StoreTotal(i))
          /\ WF_vars(i \in Refs /\ StoreCounter(i))

\* ================================================================ properties
Range(s) == {s[k] : k \in DOMAIN s}
\* s holds its references in input order, none twice
InInputOrder(s) == \A k \in 1..(Len(s) - 1) : s[k] < s[k + 1]
\* the relevant list as classification returned it (the objects do not change
\* after classification)
classifiedRelevant == Partition(InputOrder(Len(batch)), batch).relevant

\* C1 (Spec): as long as every run had deduplication enabled and no lookup or
\* write failed, no (title, link) has been passed to the Notifier more than
\* once.
C1_AtMostOnceDelivery ==
    clean => \A k \in FeedEntries : delivered[k] <= 1

\* C2 (SpecBatch): when process_announcements_in_parallel has returned, every
\* announcement of the batch is in exactly one of the two lists exactly once
\* (the lengths add up to N), and each list is in input order, whatever the
\* number of workers and the order in which the calls completed.
C2_PartitionCompleteStable ==
    phase = "returned" =>
        /\ Len(relevant_announcements) + Len(non_relevant_announcements)
              = Cardinality(Refs)
        /\ Range(relevant_announcements) \cup Range(non_relevant_announcements)
              = Refs
        /\ Range(relevant_announcements) \cap Range(non_relevant_announcements)
              = {}
        /\ InInputOrder(relevant_announcements)
        /\ InInputOrder(non_relevant_announcements)

\* two relevant announcements whose calls completed against the input order
C2_Witness ==
    /\ phase = "returned"
    /\ max_workers >= 2
    /\ completed = <<2, 1>>
    /\ relevant_announcements = <<1, 2>>

\* C3 (SpecBatch): when the batch has returned, total is the number of
\* announcements, throttled the number of throttled calls and errors the
\* number of calls that failed otherwise.
C3_ExactCounters ==
    phase = "returned" =>
        /\ api_calls.total = Cardinality(Refs)
        /\ api_calls.throttled
              = Cardinality({i \in Refs : callClass[i] = "throttled"})
        /\ api_calls.errors
              = Cardinality({i \in Refs : callClass[i] \in {"notparseable", "failed"}})

\* C4 (SpecBatch): a call whose response is not parseable ends with
\* relevant = false and no services, its increment raises the error counter
\* by one, and the batch returns (nothing is raised).
C4_FailSafeClassification ==
    /\ [](\A i \in Refs :
            (pc[i] = "done" /\ callClass[i] = "notparseable") =>
                /\ announcements[i].relevant = FALSE
                /\ announcements[i].services = <<>>)
    /\ [][\A i \in Refs :
            (callClass[i] = "notparseable" /\ pc[i] = "inc_ctr" /\ pc'[i] = "done")
                => api_calls'.errors = api_calls.errors + 1]_vars

\* C5 (SpecId): two announcements that differ in title or link have
\* different identities.
C5_IdentityInjective ==
    (idOut[1] # "none" /\ idOut[2] # "none" /\ Key(idPair[1]) # Key(idPair[2]))
        => idOut[1] # idOut[2]

\* C6 (SpecId): two announcements with the same title and the same link have
\* the same identity, whenever each identity was computed: before or after
\* classification, before or after an edit of description and date.
C6_IdentityTitleLinkOnly ==
    (idOut[1] # "none" /\ idOut[2] # "none" /\ Key(idPair[1]) = Key(idPair[2]))
        => idOut[1] = idOut[2]

\* same title and link; the second is edited, re-dated and classified relevant
C6_Witness ==
    /\ idOut[1] # "none" /\ idOut[2] # "none"
    /\ Key(idPair[1]) = Key(idPair[2])
    /\ idPair[2].description # idPair[1].description
    /\ idPair[2].datePosted # idPair[1].datePosted
    /\ Get(idPair[2], "relevant", FALSE)
    /\ Get(idPair[2], "summary", "") # ""

\* C7 (Spec): once the filter has run, every announcement whose lookup raised
\* is in the new list and not in the filtered one, every relevant
\* announcement was looked up, and the run did not fail in the filter.
C7_FailOpenLookup ==
    filterCalled =>
        /\ \A i \in lookupRaised : i \in Range(relevant) /\ i \notin Range(filtered)
        /\ lookedUp = Range(classifiedRelevant)
        /\ stage \in {"save", "notify", "returned", "raised"}
        /\ error \in {"none", "slack"}

\* the lookup of a recorded announcement raises, and the one after it is
\* still looked up and filtered
C7_Witness ==
    /\ filterCalled
    /\ \E i \in lookupRaised : \E j \in Range(filtered) :
          /\ i < j
          /\ generate_announcement_id(batch[i]) \in DOMAIN store

\* C8 (Spec): once save_announcement has been called on the N new
\* announcements, a write was attempted for each of them in order, every one
\* whose write did not fail is in the store as written in this run, nothing
\* was raised, success + failure = N and failure is the number of failed
\* writes.
C8_SaveIsolation ==
    save_results.called =>
        /\ writeAttempted = relevant
        /\ \A i \in Range(relevant) \ writeFailed :
              /\ generate_announcement_id(batch[i]) \in DOMAIN store
              /\ store[generate_announcement_id(batch[i])].processed_at = run
        /\ error # "save"
        /\ save_results.success + save_results.failure = Len(relevant)
        /\ save_results.failure = Cardinality(writeFailed)

\* a failed write is followed by a successful one
C8_Witness ==
    /\ save_results.called
    /\ \E i \in writeFailed : \E j \in Range(relevant) \ writeFailed :
          /\ i < j
          /\ Key(batch[i]) # Key(batch[j])
          /\ generate_announcement_id(batch[j]) \in DOMAIN store

\* C9 (Spec): right after the filter has run with history enabled and a table
\* present, new and filtered partition the relevant announcements, an
\* announcement is filtered iff its lookup reported it seen (its identity is
\* in the store and the lookup did not raise), and both lists are in input
\* order.
C9_FilterStablePartition ==
    (stage = "save" /\ filterCalled) =>
        /\ Range(relevant) \cup Range(filtered) = Range(classifiedRelevant)
        /\ Range(relevant) \cap Range(filtered) = {}
        /\ Len(relevant) + Len(filtered) = Len(classifiedRelevant)
        /\ \A i \in Range(classifiedRelevant) :
              i \in Range(filtered) <=>
                 /\ generate_announcement_id(batch[i]) \in DOMAIN store
                 /\ i \notin lookupRaised
        /\ InInputOrder(relevant)
        /\ InInputOrder(filtered)

\* one announcement seen, one new
C9_Witness ==
    /\ stage = "save" /\ filterCalled
    /\ use_history /\ ddb_table = "table"
    /\ lookupRaised = {}
    /\ Len(filtered) = 1 /\ Len(relevant) = 1

\* C10 (Spec): in a run with history disabled no table is acquired, no lookup
\* and no write is issued, the filter and the save are not called,
\* filtered_history_count stays 0, filter_seen_announcements with history
\* off returns its input and an empty list, and the relevant announcements
\* reach the notification stage (and the Notifier, when it is called)
\* unfiltered.
C10_NoHistoryNoStore ==
    (config.no_history /\ stage # "idle") =>
        /\ ~tableAcquired /\ ddb_table = "None"
        /\ lookedUp = {} /\ writeAttempted = <<>>
        /\ ~filterCalled /\ ~save_results.called
        /\ results.filtered_history_count = 0
        /\ filtered = <<>>
        /\ \A tbl \in {"None", "table"} :
              filter_seen_announcements(classifiedRelevant, batch, store, tbl,
                                        FALSE, {})
                 = [new |-> classifiedRelevant, filtered |-> <<>>, lookups |-> {}]
        /\ stage \in {"save", "notify", "returned"} => relevant = classifiedRelevant
        /\ notifierInput.called => notifierInput.refs = classifiedRelevant
        /\ (stage \in {"returned", "raised"} /\ error \in {"none", "slack"}
              /\ config.slack_enabled /\ config.slack_creds
              /\ classifiedRelevant # <<>>) => notifierInput.called

\* history is off, and an announcement recorded by an earlier run is passed
\* to the Notifier again
C10_Witness ==
    /\ config.no_history
    /\ notifierInput.called
    /\ \E i \in Range(notifierInput.refs) :
          generate_announcement_id(batch[i]) \in DOMAIN store

\* the run is past the fetch, which did not raise
PastFetch ==
    \/ stage \in {"classify", "filter", "save", "notify", "returned"}
    \/ stage = "raised" /\ error \notin {"table", "services", "fetch"}

\* the records whose write succeeded in this run
WrittenThisRun == Range(writeAttempted) \ writeFailed

\* C11 (Spec): a run with deduplication enabled whose table cannot be
\* accessed does not fail: it goes on without deduplication.
C11_UnreachableStoreDegrades ==
    (use_history /\ tableAcquired) => ~(stage = "raised" /\ error = "table")

\* C12 (Spec): when the inventory, the fetch or the table at setup fails, the
\* run ends by raising that error, and it has classified nothing, looked up
\* and written nothing and notified nobody.
C12_HardFailuresAbort ==
    error \in {"table", "services", "fetch"} =>
        /\ stage = "raised"
        /\ exception.type # "none"
        /\ classifierCalled = {}
        /\ lookedUp = {} /\ ~filterCalled
        /\ writeAttempted = <<>> /\ ~save_results.called
        /\ ~notifierInput.called
        /\ relevant = <<>> /\ non_relevant = <<>>

\* the fetch fails in a run whose table was acquired and holds records of an
\* earlier run
C12_Witness ==
    /\ error = "fetch" /\ stage = "raised"
    /\ ddb_table = "table" /\ store # <<>>
    /\ config.slack_enabled /\ config.slack_creds

\* C13 (Spec): when the run has raised because posts failed, slack_success
\* and slack_failure are in the results, with failure > 0 and the two adding
\* up to the announcements passed to the Notifier, and every record written
\* in this run is in the store.
C13_NotificationFailureLate ==
    error = "slack" =>
        /\ stage = "raised"
        /\ "slack_success" \in DOMAIN results
        /\ "slack_failure" \in DOMAIN results
        /\ Get(results, "slack_failure", 0) > 0
        /\ Get(results, "slack_success", 0) + Get(results, "slack_failure", 0)
              = Len(notifierInput.refs)
        /\ \A i \in WrittenThisRun :
              /\ generate_announcement_id(batch[i]) \in DOMAIN store
              /\ store[generate_announcement_id(batch[i])].processed_at = run

\* two announcements were recorded and passed on, one post failed
C13_Witness ==
    /\ error = "slack"
    /\ save_results.called /\ save_results.success = 2
    /\ Get(results, "slack_success", 0) = 1
    /\ Get(results, "slack_failure", 0) = 1

\* C14 (Spec): when the run has raised because posts failed, the exception
\* carries the statistics of the run: every count of the results.
C14_ErrorCarriesStatistics ==
    error = "slack" =>
        \A k \in DOMAIN results :
            /\ k \in DOMAIN exception.args
            /\ exception.args[k] = results[k]

\* C15 (Spec): with deduplication on and no lookup failing, when every
\* announcement classified relevant was recorded by an earlier run, the
\* filter leaves no new announcement and filters them all, nothing is saved,
\* the Notifier is not called, the run does not fail, and
\* filtered_history_count is the number of relevant announcements.
C15_RepeatRunSilent ==
    (/\ filterCalled /\ lookupRaised = {}
     /\ \A i \in Range(classifiedRelevant) :
           /\ generate_announcement_id(batch[i]) \in DOMAIN store
           /\ store[generate_announcement_id(batch[i])].processed_at < run)
    =>  /\ relevant = <<>>
        /\ filtered = classifiedRelevant
        /\ ~save_results.called /\ writeAttempted = <<>>
        /\ ~notifierInput.called
        /\ stage \in {"save", "notify", "returned"}
        /\ error = "none"
        /\ results.filtered_history_count = Len(classifiedRelevant)
        /\ results.relevant_count = Len(classifiedRelevant)

\* a second run refetches what the first recorded, with notification enabled
C15_Witness ==
    /\ stage = "returned" /\ run = 2
    /\ filterCalled /\ lookupRaised = {}
    /\ Len(filtered) = 2 /\ relevant = <<>>
    /\ Key(batch[filtered[1]]) # Key(batch[filtered[2]])
    /\ config.slack_enabled /\ config.slack_creds
    /\ ~notifierInput.called

\* C16 (Spec): when the fetch returned no announcement, no classifier call,
\* no lookup, no write and no Notifier call is made, the run does not fail,
\* and it returns with announcement_count, relevant_count and
\* filtered_history_count 0.
C16_EmptyFetchShortCircuits ==
    (PastFetch /\ batch = <<>>) =>
        /\ classifierCalled = {}
        /\ lookedUp = {}
        /\ writeAttempted = <<>> /\ ~save_results.called
        /\ ~notifierInput.called
        /\ stage # "raised" /\ error = "none"
        /\ results.announcement_count = 0
        /\ results.relevant_count = 0
        /\ results.filtered_history_count = 0

\* an empty fetch in a run with a table, notification enabled and a worker
\* count the pool would refuse
C16_Witness ==
    /\ stage = "returned" /\ batch = <<>>
    /\ ddb_table = "table" /\ filterCalled
    /\ config.slack_enabled /\ config.slack_creds
    /\ config.workers <= 0

\* C17 (SpecBatch): process_announcements_in_parallel called with
\* max_workers <= 0 raises; it never enters the pool, so no task is started,
\* no classifier call is counted or answered, and nothing waits.
C17_NonPositiveWorkersRejected ==
    (max_workers <= 0 /\ phase \notin {"idle", "entry"}) =>
        /\ phase = "raised"
        /\ \A i \in Refs : pc[i] = "queued" /\ callClass[i] = "none"
        /\ api_calls.total = 0
        /\ completed = <<>>

\* a negative worker count on a batch of two
C17_Witness ==
    /\ phase = "raised"
    /\ max_workers < 0
    /\ Cardinality(Refs) = 2

\* an invalid configuration: no worker, or notification enabled without
\* token or channel
ConfigInvalid(c) ==
    c.workers <= 0 \/ (c.slack_enabled /\ ~c.slack_creds)

\* C18 (Spec): a run with an invalid configuration is rejected before the
\* pipeline starts: no table is acquired, no inventory is taken, nothing is
\* fetched, classified, written or notified.
C18_ConfigValidatedAtBoundary ==
    (stage # "idle" /\ ConfigInvalid(config)) =>
        /\ stage \in {"setup", "raised"}
        /\ ~tableAcquired
        /\ results.service_count = 0
        /\ batch = <<>>
        /\ classifierCalled = {}
        /\ writeAttempted = <<>>
        /\ ~notifierInput.called

\* C19 (SpecBatchFair): once the batch is in the pool, the call returns,
\* whether or not the oracle answers every request.
C19_StuckCallCannotHang ==
    (phase = "map") ~> (phase = "returned")

\* C20 (SpecBatch): a throttled call ends with relevant = false and no
\* services and its increment raises throttled by one and leaves errors as
\* they are; a call that fails otherwise ends the same way and its increment
\* raises errors by one and leaves throttled as it is.
C20_ThrottlingCountedApart ==
    /\ [](\A i \in Refs :
            (pc[i] = "done" /\ callClass[i] \in {"throttled", "failed"}) =>
                /\ announcements[i].relevant = FALSE
                /\ announcements[i].services = <<>>)
    /\ [][\A i \in Refs :
            (pc[i] = "inc_ctr" /\ pc'[i] = "done") =>
                /\ callClass[i] = "throttled" =>
                      /\ api_calls'.throttled = api_calls.throttled + 1
                      /\ api_calls'.errors = api_calls.errors
                /\ callClass[i] = "failed" =>
                      /\ api_calls'.errors = api_calls.errors + 1
                      /\ api_calls'.throttled = api_calls.throttled]_vars

\* the records of the table that hold the title and link of an announcement
RecordsOf(announcement) ==
    {id \in DOMAIN store : /\ store[id].title = announcement.title
                           /\ store[id].link = announcement.link}

\* C21 (Spec): once save_announcement has been called, possibly writing the
\* same identity more than once, nothing was raised, is_announcement_seen
\* finds every announcement whose write succeeded, and the table holds
\* exactly one record of it.
C21_DedupIdempotent ==
    save_results.called =>
        /\ error # "save"
        /\ \A i \in WrittenThisRun :
              /\ is_announcement_seen(batch[i], store, FALSE)
              /\ Cardinality(RecordsOf(batch[i])) = 1

\* the same identity is written twice by one call, over the record an
\* earlier run left
C21_Witness ==
    /\ save_results.called /\ save_results.success = 2
    /\ Key(batch[writeAttempted[1]]) = Key(batch[writeAttempted[2]])
    /\ generate_announcement_id(batch[writeAttempted[1]]) \in seenAtStart

\* the counts the results of a run are known to hold
CountKeys ==
    {"service_count", "announcement_count", "relevant_count",
     "filtered_history_count", "slack_success", "slack_failure"}

\* C22 (Spec): the statistics a run returns hold the classifier call totals:
\* besides the counts of the stages there is the number of classifier calls
\* of the run.
C22_StatisticsHoldClassifierTotals ==
    stage = "returned" =>
        \E k \in DOMAIN results \ CountKeys :
            results[k] = Cardinality(classifierCalled)

\* C23 (Spec): when a run has returned, announcement_count is the number of
\* announcements classified (relevant plus non-relevant), relevant_count the
\* number classified relevant before the filter, filtered_history_count the
\* number the filter found seen, the list written is the filter's new list,
\* and filtered_history_count <= relevant_count <= announcement_count.
C23_StatisticsConsistent ==
    stage = "returned" =>
        /\ results.announcement_count
              = Len(classifiedRelevant) + Len(non_relevant)
        /\ results.announcement_count = Len(batch)
        /\ results.relevant_count = Len(classifiedRelevant)
        /\ results.filtered_history_count = Len(filtered)
        /\ Len(relevant) + Len(filtered) = Len(classifiedRelevant)
        /\ save_results.called => writeAttempted = relevant
        /\ results.filtered_history_count <= results.relevant_count
        /\ results.relevant_count <= results.announcement_count

\* one announcement is not relevant, one is relevant and already seen
C23_Witness ==
    /\ stage = "returned"
    /\ Len(non_relevant) = 1 /\ Len(filtered) = 1
    /\ results.announcement_count = 2

\* C24 (Spec): main returns 0 exactly when process_features returned and 1
\* exactly when it raised.
C24_ExitStatus ==
    exit_status # <<>> =>
        /\ exit_status \in {<<0>>, <<1>>}
        /\ exit_status = <<0>> <=> stage = "returned"
        /\ exit_status = <<1>> <=> stage = "raised"

\* a run with a non-relevant announcement, a lookup that raised and a write
\* that failed exits with 0
C24_Witness ==
    /\ exit_status = <<0>>
    /\ non_relevant # <<>>
    /\ lookupRaised # {} /\ writeFailed # {}

\* the steps from stage to stage the order of a run allows
StageOrder ==
    {<<"services", "fetch">>, <<"fetch", "classify">>,
     <<"classify", "filter">>, <<"filter", "save">>, <<"save", "notify">>,
     <<"notify", "returned">>,
     <<"services", "raised">>, <<"fetch", "raised">>,
     <<"classify", "raised">>, <<"notify", "raised">>}

\* C25 (Spec): within a run the stages follow one another in the order
\* inventory, fetch, classify, filter, persist, notify, done; the error state
\* is entered only from inventory, fetch or classification or by a failed
\* notification; and what is passed to the Notifier was written before.
C25_StageOrder ==
    /\ [][(stage' # stage /\ stage' # "setup")
             => (stage = "setup" /\ stage' = "services")
                \/ <<stage, stage'>> \in StageOrder]_vars
    /\ []((notifierInput.called /\ use_history /\ ddb_table # "None")
             => writeAttempted = notifierInput.refs)

\* C26 (Spec): a run raises only when setup, the inventory or the fetch
\* failed or a notification failed: classifier, lookup and write failures
\* leave it on its way to a successful return.
C26_DegradedFailuresNeverAbort ==
    stage = "raised" => error \in {"table", "services", "fetch", "slack"}

\* C27 (Spec): a record of the table is never overwritten, updated or
\* deleted: every step leaves every existing record as it is.
C27_SeenRecordsWriteOnce ==
    [][\A id \in DOMAIN store :
          id \in DOMAIN store' /\ store'[id] = store[id]]_vars

\* the object substrings of a text, by position
ObjectsIn(text) ==
    {p \in (1..Len(text)) \X (1..Len(text)) :
        /\ p[1] <= p[2]
        /\ json_loads(SubSeq(text, p[1], p[2])).ok
        /\ json_loads(SubSeq(text, p[1], p[2])).isdict}

\* the first of them: the leftmost, and the shortest from there
FirstObjectIn(text) ==
    CHOOSE p \in ObjectsIn(text) :
        \A q \in ObjectsIn(text) :
            p[1] < q[1] \/ (p[1] = q[1] /\ p[2] <= q[2])

\* C28 (SpecParse): a text that parses as an object gives that object's
\* verdict; otherwise a text that contains a well-formed object gives the
\* verdict of the first one; only a text with neither is malformed.
C28_ParsingRecoversFirstObject ==
    parse_result.done =>
        LET whole == json_loads(parse_text)
            first == FirstObjectIn(parse_text)
        IN  IF whole.ok /\ whole.isdict
            THEN parse_result = [done |-> TRUE, malformed |-> FALSE,
                                 verdict |-> ApplyResult(<<>>, whole.dict)]
            ELSE IF ObjectsIn(parse_text) # {}
            THEN parse_result =
                    [done |-> TRUE, malformed |-> FALSE,
                     verdict |-> ApplyResult(<<>>,
                        json_loads(SubSeq(parse_text, first[1], first[2])).dict)]
            ELSE parse_result.malformed

\* C29 (Spec): in a run with a non-empty fetch the classifier is called once
\* for every fetched announcement, whether or not the table holds it; no
\* lookup is issued before the classification, and lookups are issued for
\* announcements classified relevant only.
C29_ClassificationEveryRun ==
    /\ (PastFetch /\ stage # "classify" /\ batch # <<>>)
          => classifierCalled = DOMAIN batch
    /\ stage \in {"setup", "services", "fetch", "classify"} => lookedUp = {}
    /\ lookedUp \subseteq Range(classifiedRelevant)

\* C30 (Spec): as long as every run had deduplication enabled and no lookup
\* or write failed, no announcement that the table held when the run started
\* is passed to the Notifier, whatever happened to its notification in the
\* run that recorded it.
C30_RecordedNeverDeliveredLater ==
    (clean /\ notifierInput.called) =>
        \A i \in Range(notifierInput.refs) :
            generate_announcement_id(batch[i]) \notin seenAtStart

\* an announcement recorded by the first run and never passed to the
\* Notifier is filtered by the second, which notifies of another
C30_Witness ==
    /\ clean /\ run = 2
    /\ notifierInput.called
    /\ \E i \in Range(filtered) :
          /\ generate_announcement_id(batch[i]) \in seenAtStart
          /\ delivered[Key(batch[i])] = 0

====
